---- MODULE Spec2Model ----
(***************************************************************************)
(* Span state machine of skill-composer (skills-system): the skill_span    *)
(* and life_event tables of life.db, and the hook handlers that read and   *)
(* write them from independent, concurrently running processes.            *)
(*                                                                         *)
(* Every handler is split at its database statements: BEGIN EXCLUSIVE      *)
(* (acquiring SQLite's single write lock), the SELECTs, and the            *)
(* UPDATE/INSERT with its commit.  A span_id is the row's position in      *)
(* spans (creation order); uuid4 collisions are not modelled.              *)
(***************************************************************************)
EXTENDS Integers, Sequences, FiniteSets, TLC

VARIABLES
    spans,   \* skill_span table: sequence of rows, span_id = index
    events,  \* life_event table: sequence of rows in insertion order
    now,     \* wall clock in whole seconds (strftime '%S' resolution)
    lock,    \* process holding SQLite's write lock, or NoProc
    pc,      \* pc[p]: the statement process p executes next
    call,    \* call[p]: operation and arguments of p's call in progress
    snap,    \* snap[p]: what the SELECT of p's call in progress returned
    last,    \* the call that returned most recently, and its result
    calls,   \* number of calls started so far (bounds the model)
    hist,    \* race scenario only: the calls in lock-acquisition order (ghost)
    gate     \* the step_gate check that returned most recently, and its result

vars == <<spans, events, now, lock, pc, call, snap, last, calls, hist, gate>>

----------------------------------------------------------------------------
(* Bounds and value domains *)

MaxCalls == 3
MaxClock == 2

Skills == {"A", "B"}
Steps == {"a", "b"}
Sessions == {"s1"}
Procs == {"p1", "p2"}
RaceProcs == {"p1", "p2", "p3"}
AllProcs == Procs \cup RaceProcs

None == "none"        \* Python None / SQL NULL in a text column
NoProc == "free"
NoSpan == 0           \* NULL in parent_span_id, "no row" for a fetchone()
NoTime == 0           \* NULL in completed_at / suspended_at
SKILL == "SKILL"      \* first_step sentinel for a SKILL.md read
EmptySession == ""    \* emit_event's default session_id

AllStatus == {"active", "suspended", "completed"}

StepArgs == Steps \cup {None}
SessionArgs == Sessions \cup {None}

Last(s) == s[Len(s)]

----------------------------------------------------------------------------
(* Queries on skill_span *)

\* " AND session_id = ?" when session_id is truthy, nothing otherwise
SessionFilter(row, sess) == sess = None \/ row.session_id = sess

\* Mutant: the session filter is left out of the WHERE clause.
ScopeRowsAnySession(skill, statuses, sess) ==
    {i \in DOMAIN spans : /\ spans[i].skill = skill
                          /\ spans[i].status \in statuses}

\* WHERE skill = ? AND status IN statuses + session_filter
ScopeRows(skill, statuses, sess) ==
    {i \in DOMAIN spans : /\ spans[i].skill = skill
                          /\ spans[i].status \in statuses
                          /\ SessionFilter(spans[i], sess)}

\* Mutant: the parent is looked for in every session.
OtherSkillRowsAnySession(skill, statuses, sess) ==
    {i \in DOMAIN spans : /\ spans[i].skill # skill
                          /\ spans[i].status \in statuses}

\* Mutant: the session filter of the parent SELECT is inverted.
OtherSkillRowsOtherSession(skill, statuses, sess) ==
    {i \in DOMAIN spans : /\ spans[i].skill # skill
                          /\ spans[i].status \in statuses
                          /\ (sess = None \/ spans[i].session_id # sess)}

\* WHERE skill != ? AND status IN statuses + session_filter
OtherSkillRows(skill, statuses, sess) ==
    {i \in DOMAIN spans : /\ spans[i].skill # skill
                          /\ spans[i].status \in statuses
                          /\ SessionFilter(spans[i], sess)}

\* WHERE status IN ('active','suspended') AND session_id = ?
OpenRows(sess) ==
    {i \in DOMAIN spans : /\ spans[i].status \in {"active", "suspended"}
                          /\ spans[i].session_id = sess}

\* Mutant: ORDER BY started_at ASC.
Oldest(S) == {i \in S : \A j \in S : spans[i].started_at <= spans[j].started_at}

\* ORDER BY started_at DESC LIMIT 1: the rows fetchone() may return.  Rows
\* started in the same second tie, and SQLite leaves their order open.
Latest(S) == {i \in S : \A j \in S : spans[j].started_at <= spans[i].started_at}

----------------------------------------------------------------------------
(* Row updates of _get_or_create_span *)

\* Mutant: the UPDATE stores the step alone instead of the grown list.
AppendStepReplace(row, steps, step) ==
    [row EXCEPT !.last_step = step, !.steps = <<step>>]

\* Mutant: the UPDATE writes steps and leaves last_step as it was.
AppendStepKeepLast(row, steps, step) ==
    [row EXCEPT !.steps = Append(steps, step)]

\* Branch 1: UPDATE skill_span SET last_step = ?, steps = ? WHERE span_id = ?
AppendStep(row, steps, step) ==
    [row EXCEPT !.last_step = step, !.steps = Append(steps, step)]

\* Mutant: the resume leaves suspended_at as it was.
ResumeRowKeepStamp(row, steps, step) ==
    LET new == IF step # None THEN Append(steps, step) ELSE steps
    IN  [row EXCEPT !.status = "active",
                    !.last_step = IF step # None THEN step ELSE Last(new),
                    !.steps = new]

\* Branch 2: UPDATE ... SET status = 'active', suspended_at = NULL,
\*           last_step = ?, steps = ?
ResumeRow(row, steps, step) ==
    LET new == IF step # None THEN Append(steps, step) ELSE steps
    IN  [row EXCEPT !.status = "active", !.suspended_at = NoTime,
                    !.last_step = IF step # None THEN step ELSE Last(new),
                    !.steps = new]

\* Mutant: the row is inserted without the sentinel for a missing step.
NewSpanNoSentinel(skill, parent, step, sess, t) ==
    [skill |-> skill, parent_span_id |-> parent, status |-> "active",
     first_step |-> step, last_step |-> step, steps |-> <<step>>,
     session_id |-> sess, started_at |-> t,
     completed_at |-> NoTime, suspended_at |-> NoTime]

\* Branch 3: INSERT INTO skill_span (...) VALUES (?, ?, ?, 'active', ...)
NewSpan(skill, parent, step, sess, t) ==
    LET first == IF step # None THEN step ELSE SKILL
    IN  [skill |-> skill, parent_span_id |-> parent, status |-> "active",
         first_step |-> first, last_step |-> first, steps |-> <<first>>,
         session_id |-> sess, started_at |-> t,
         completed_at |-> NoTime, suspended_at |-> NoTime]

----------------------------------------------------------------------------
(* life_event *)

\* emit_event(skill, phase, event_type): one INSERT on a connection of its
\* own; no caller in the hooks passes session_id, so the default is stored.
LifeEvent(skill, phase, etype) ==
    [skill |-> skill, phase |-> phase, event_type |-> etype,
     session_id |-> EmptySession]

\* get_session_events(session_id): SELECT ... FROM life_event
\* WHERE session_id = ? ORDER BY timestamp; events are kept in the order of
\* their timestamps.
get_session_events(sess) ==
    SelectSeq(events, LAMBDA e : e.session_id = sess)

\* The INSERT commits when the write lock is free; when another process
\* holds it past busy_timeout, emit_event logs a warning and returns None.
emit_event(p, skill, phase, etype) ==
    \/ /\ lock = NoProc
       /\ events' = Append(events, LifeEvent(skill, phase, etype))
    \/ /\ lock \notin {NoProc, p}
       /\ events' = events

----------------------------------------------------------------------------
(* Per-process bookkeeping *)

NoCall == [op |-> "none", skill |-> None, step |-> None, session_id |-> None]
NoSnap == [branch |-> "none", id |-> NoSpan, steps |-> <<>>, parent_span_id |-> NoSpan]
NoLast == [op |-> "none", branch |-> "none", id |-> NoSpan, st |-> "none"]

Result(p, c, branch, id, st) ==
    [op |-> c.op, branch |-> branch, id |-> id, st |-> st]

\* A call starts: the arguments are bound and the first statement runs.
Start(p, c, first) ==
    /\ pc[p] = "idle"
    /\ calls < MaxCalls
    /\ calls' = calls + 1
    /\ call' = [call EXCEPT ![p] = c]
    /\ pc' = [pc EXCEPT ![p] = first]

\* A call that starts and returns within one statement.
StartReturn(p, c, branch, id, st) ==
    /\ pc[p] = "idle"
    /\ calls < MaxCalls
    /\ calls' = calls + 1
    /\ last' = Result(p, c, branch, id, st)
    /\ UNCHANGED <<pc, call, snap>>

\* A call in progress returns; the process exits.
Return(p, branch, id, st) ==
    /\ pc' = [pc EXCEPT ![p] = "idle"]
    /\ last' = Result(p, call[p], branch, id, st)
    /\ call' = [call EXCEPT ![p] = NoCall]
    /\ snap' = [snap EXCEPT ![p] = NoSnap]

\* Mutant: a transaction that starts without waiting for the write lock.
AcquireLockNoWait(p) == lock' = p

\* BEGIN EXCLUSIVE is granted: no process holds the write lock.
AcquireLock(p) == lock = NoProc /\ lock' = p

\* commit, or close without commit: the lock is given up.
ReleaseLock(p) == lock' = IF lock = p THEN NoProc ELSE lock

----------------------------------------------------------------------------
(* _get_or_create_span(skill, step, session_id) *)

\* Mutant: the active-span SELECT of branch 1 is missing.
get_or_create_span_select_skip_active(skill, sess) ==
    LET sus == ScopeRows(skill, {"suspended"}, sess)
    IN  IF sus # {}
        THEN {[branch |-> "resume", id |-> i, steps |-> spans[i].steps,
               parent_span_id |-> NoSpan] : i \in Latest(sus)}
        ELSE {[branch |-> "create", id |-> NoSpan, steps |-> <<>>,
               parent_span_id |-> NoSpan]}

\* Mutant: the suspended-span SELECT runs before the active-span SELECT.
get_or_create_span_select_suspended_first(skill, sess) ==
    LET act == ScopeRows(skill, {"active"}, sess)
        sus == ScopeRows(skill, {"suspended"}, sess)
        par == OtherSkillRows(skill, {"active", "suspended"}, sess)
    IN  IF sus # {}
        THEN {[branch |-> "resume", id |-> i, steps |-> spans[i].steps,
               parent_span_id |-> NoSpan] : i \in Latest(sus)}
        ELSE IF act # {}
        THEN {[branch |-> "append", id |-> i, steps |-> spans[i].steps,
               parent_span_id |-> NoSpan] : i \in Latest(act)}
        ELSE IF par # {}
        THEN {[branch |-> "create", id |-> NoSpan, steps |-> <<>>,
               parent_span_id |-> i] : i \in Latest(par)}
        ELSE {[branch |-> "create", id |-> NoSpan, steps |-> <<>>,
               parent_span_id |-> NoSpan]}

\* Mutant: the suspended-span SELECT of branch 2 is missing.
get_or_create_span_select_skip_suspended(skill, sess) ==
    LET act == ScopeRows(skill, {"active"}, sess)
        par == OtherSkillRows(skill, {"active", "suspended"}, sess)
    IN  IF act # {}
        THEN {[branch |-> "append", id |-> i, steps |-> spans[i].steps,
               parent_span_id |-> NoSpan] : i \in Latest(act)}
        ELSE IF par # {}
        THEN {[branch |-> "create", id |-> NoSpan, steps |-> <<>>,
               parent_span_id |-> i] : i \in Latest(par)}
        ELSE {[branch |-> "create", id |-> NoSpan, steps |-> <<>>,
               parent_span_id |-> NoSpan]}

\* The three SELECTs in branch order; the first that returns a row decides.
get_or_create_span_select(skill, sess) ==
    LET act == ScopeRows(skill, {"active"}, sess)
        sus == ScopeRows(skill, {"suspended"}, sess)
        par == OtherSkillRows(skill, {"active", "suspended"}, sess)
    IN  IF act # {}
        THEN {[branch |-> "append", id |-> i, steps |-> spans[i].steps,
               parent_span_id |-> NoSpan] : i \in Latest(act)}
        ELSE IF sus # {}
        THEN {[branch |-> "resume", id |-> i, steps |-> spans[i].steps,
               parent_span_id |-> NoSpan] : i \in Latest(sus)}
        ELSE IF par # {}
        THEN {[branch |-> "create", id |-> NoSpan, steps |-> <<>>,
               parent_span_id |-> i] : i \in Latest(par)}
        ELSE {[branch |-> "create", id |-> NoSpan, steps |-> <<>>,
               parent_span_id |-> NoSpan]}

\* The call, BEGIN EXCLUSIVE and the SELECTs.  Until the lock is granted the
\* call has read nothing, so a call waiting for the lock is a call that has
\* not started yet.
get_or_create_span_begin(p, skill, step, sess) ==
    /\ Start(p, [op |-> "goc", skill |-> skill, step |-> step, session_id |-> sess],
             "goc_write")
    /\ AcquireLock(p)
    /\ \E s \in get_or_create_span_select(skill, sess) : snap' = [snap EXCEPT ![p] = s]
    /\ UNCHANGED <<spans, events, now, last, gate>>

\* Mutant: the INSERT of branch 3 comes with a suspension of the parent.
get_or_create_span_commit_suspends(p) ==
    /\ pc[p] = "goc_write"
    /\ LET c == call[p]
           s == snap[p]
       IN  \/ /\ s.branch = "append"
              /\ spans' = IF c.step # None
                          THEN [spans EXCEPT ![s.id] =
                                    AppendStep(spans[s.id], s.steps, c.step)]
                          ELSE spans
              /\ Return(p, "append", s.id, "ok")
           \/ /\ s.branch = "resume"
              /\ spans' = [spans EXCEPT ![s.id] =
                                ResumeRow(spans[s.id], s.steps, c.step)]
              /\ Return(p, "resume", s.id, "ok")
           \/ /\ s.branch = "create"
              /\ spans' = Append([i \in DOMAIN spans |->
                                    IF i = s.parent_span_id /\ spans[i].status = "active"
                                    THEN [spans[i] EXCEPT !.status = "suspended",
                                                          !.suspended_at = now]
                                    ELSE spans[i]],
                                 NewSpan(c.skill, s.parent_span_id, c.step, c.session_id, now))
              /\ Return(p, "create", Len(spans) + 1, "ok")
    /\ ReleaseLock(p)
    /\ UNCHANGED <<events, now, calls, gate>>

\* The branch's UPDATE or INSERT, db.commit() and return span_id.
get_or_create_span_commit(p) ==
    /\ pc[p] = "goc_write"
    /\ LET c == call[p]
           s == snap[p]
       IN  \/ /\ s.branch = "append"
              /\ spans' = IF c.step # None
                          THEN [spans EXCEPT ![s.id] =
                                    AppendStep(spans[s.id], s.steps, c.step)]
                          ELSE spans
              /\ Return(p, "append", s.id, "ok")
           \/ /\ s.branch = "resume"
              /\ spans' = [spans EXCEPT ![s.id] =
                                ResumeRow(spans[s.id], s.steps, c.step)]
              /\ Return(p, "resume", s.id, "ok")
           \/ /\ s.branch = "create"
              /\ spans' = Append(spans,
                                 NewSpan(c.skill, s.parent_span_id, c.step, c.session_id, now))
              /\ Return(p, "create", Len(spans) + 1, "ok")
    /\ ReleaseLock(p)
    /\ UNCHANGED <<events, now, calls, gate>>

----------------------------------------------------------------------------
(* _suspend_current_span(skill, session_id) *)

\* Mutant: the UPDATE does not ask for status = 'active'.
SuspendRowsAnyStatus(skill, sess) ==
    [i \in DOMAIN spans |->
        IF i \in ScopeRows(skill, AllStatus, sess)
        THEN [spans[i] EXCEPT !.status = "suspended", !.suspended_at = now]
        ELSE spans[i]]

\* Mutant: the UPDATE has no session filter.
SuspendRowsAnySession(skill, sess) ==
    [i \in DOMAIN spans |->
        IF spans[i].skill = skill /\ spans[i].status = "active"
        THEN [spans[i] EXCEPT !.status = "suspended", !.suspended_at = now]
        ELSE spans[i]]

\* UPDATE skill_span SET status = 'suspended', suspended_at = now
\* WHERE skill = ? AND status = 'active' [AND session_id = ?]
SuspendRows(skill, sess) ==
    [i \in DOMAIN spans |->
        IF i \in ScopeRows(skill, {"active"}, sess)
        THEN [spans[i] EXCEPT !.status = "suspended", !.suspended_at = now]
        ELSE spans[i]]

\* One UPDATE and its commit; the UPDATE takes the write lock itself.
suspend_current_span(p, skill, sess) ==
    /\ lock = NoProc
    /\ spans' = SuspendRows(skill, sess)
    /\ StartReturn(p, [op |-> "sus", skill |-> skill, step |-> None,
                       session_id |-> sess], "none", NoSpan, "ok")
    /\ UNCHANGED <<events, now, lock, hist, gate>>

----------------------------------------------------------------------------
(* close_active_skill_session(ctx) *)

\* Mutant: the UPDATE completes the active spans only.
CompleteRowsActiveOnly(sess) ==
    [i \in DOMAIN spans |->
        IF i \in OpenRows(sess) /\ spans[i].status = "active"
        THEN [spans[i] EXCEPT !.status = "completed", !.completed_at = now]
        ELSE spans[i]]

\* Mutant: the UPDATE does not ask for an open status.
CompleteRowsRestamp(sess) ==
    [i \in DOMAIN spans |->
        IF spans[i].session_id = sess
        THEN [spans[i] EXCEPT !.status = "completed", !.completed_at = now]
        ELSE spans[i]]

\* Mutant: the UPDATE sets the status and no completed_at.
CompleteRowsNoStamp(sess) ==
    [i \in DOMAIN spans |->
        IF i \in OpenRows(sess)
        THEN [spans[i] EXCEPT !.status = "completed"]
        ELSE spans[i]]

\* UPDATE skill_span SET status = 'completed', completed_at = now
\* WHERE status IN ('active', 'suspended') AND session_id = ?
CompleteRows(sess) ==
    [i \in DOMAIN spans |->
        IF i \in OpenRows(sess)
        THEN [spans[i] EXCEPT !.status = "completed", !.completed_at = now]
        ELSE spans[i]]

\* Mutant: without a session id the UPDATE runs with no session filter.
close_active_skill_session_skip_completes(p) ==
    /\ StartReturn(p, [op |-> "ca", skill |-> None, step |-> None,
                       session_id |-> None], "skip", NoSpan, "ok")
    /\ spans' = [i \in DOMAIN spans |->
                    IF spans[i].status \in {"active", "suspended"}
                    THEN [spans[i] EXCEPT !.status = "completed",
                                          !.completed_at = now]
                    ELSE spans[i]]
    /\ UNCHANGED <<events, now, lock, hist, gate>>

\* if not session_id: return
close_active_skill_session_skip(p) ==
    /\ StartReturn(p, [op |-> "ca", skill |-> None, step |-> None,
                       session_id |-> None], "skip", NoSpan, "ok")
    /\ UNCHANGED <<spans, events, now, lock, hist, gate>>

\* SELECT skill ... WHERE status IN ('active','suspended') AND session_id = ?
\* ORDER BY started_at DESC LIMIT 1
close_active_skill_session_select(p, sess) ==
    /\ \E i \in (IF OpenRows(sess) = {} THEN {NoSpan} ELSE Latest(OpenRows(sess))) :
          /\ Start(p, [op |-> "ca",
                       skill |-> IF i = NoSpan THEN None ELSE spans[i].skill,
                       step |-> None, session_id |-> sess],
                   IF i = NoSpan THEN "ca_update" ELSE "ca_emit")
          /\ snap' = [snap EXCEPT ![p] = [NoSnap EXCEPT !.id = i]]
    /\ UNCHANGED <<spans, events, now, lock, last, hist, gate>>

\* emit_event(row["skill"], "session_end", event_type="session_end")
close_active_skill_session_emit(p) ==
    /\ pc[p] = "ca_emit"
    /\ emit_event(p, call[p].skill, "session_end", "session_end")
    /\ pc' = [pc EXCEPT ![p] = "ca_update"]
    /\ UNCHANGED <<spans, now, lock, call, snap, last, calls, hist, gate>>

\* The UPDATE and db.commit()
close_active_skill_session_update(p) ==
    /\ pc[p] = "ca_update"
    /\ lock = NoProc
    /\ spans' = CompleteRows(call[p].session_id)
    /\ Return(p, IF OpenRows(call[p].session_id) = {} THEN "noop" ELSE "complete",
              NoSpan, "ok")
    /\ UNCHANGED <<events, now, lock, calls, hist, gate>>

----------------------------------------------------------------------------
(* subagent_step_tracker.check(ctx), for one step reference of the prompt *)

\* Mutant: the SELECT also takes a suspended span.
subagent_check_select_open(skill, sess) ==
    LET act == ScopeRows(skill, {"active", "suspended"}, sess)
    IN  IF act # {}
        THEN {[branch |-> "append", id |-> i, steps |-> spans[i].steps,
               parent_span_id |-> NoSpan] : i \in Latest(act)}
        ELSE {NoSnap}

\* BEGIN EXCLUSIVE and the SELECT of the active span
subagent_check_select(skill, sess) ==
    LET act == ScopeRows(skill, {"active"}, sess)
    IN  IF act # {}
        THEN {[branch |-> "append", id |-> i, steps |-> spans[i].steps,
               parent_span_id |-> NoSpan] : i \in Latest(act)}
        ELSE {NoSnap}

subagent_check_begin(p, skill, step, sess) ==
    /\ Start(p, [op |-> "del", skill |-> skill, step |-> step, session_id |-> sess],
             "del_write")
    /\ AcquireLock(p)
    /\ \E s \in subagent_check_select(skill, sess) : snap' = [snap EXCEPT ![p] = s]
    /\ UNCHANGED <<spans, events, now, last, hist, gate>>

\* Mutant: the step is appended without a look at steps[-1].
subagent_check_wrote_always(s, step) == s.id # NoSpan

\* if not (steps and steps[-1] == step): append, UPDATE; then db.commit()
subagent_check_wrote(s, step) ==
    /\ s.id # NoSpan
    /\ ~(s.steps # <<>> /\ Last(s.steps) = step)

\* Mutant: the event is emitted before db.commit(), inside the transaction.
subagent_check_commit_holds(p) ==
    /\ pc[p] = "del_write"
    /\ LET c == call[p]
           s == snap[p]
       IN  IF subagent_check_wrote(s, c.step)
           THEN /\ spans' = [spans EXCEPT ![s.id] =
                                AppendStep(spans[s.id], s.steps, c.step)]
                /\ pc' = [pc EXCEPT ![p] = "del_emit"]
                /\ UNCHANGED <<call, snap, last, lock>>
           ELSE /\ spans' = spans
                /\ Return(p, "noop", s.id, "ok")
                /\ ReleaseLock(p)
    /\ UNCHANGED <<events, now, calls, hist, gate>>

subagent_check_commit(p) ==
    /\ pc[p] = "del_write"
    /\ LET c == call[p]
           s == snap[p]
       IN  IF subagent_check_wrote(s, c.step)
           THEN /\ spans' = [spans EXCEPT ![s.id] =
                                AppendStep(spans[s.id], s.steps, c.step)]
                /\ pc' = [pc EXCEPT ![p] = "del_emit"]
                /\ UNCHANGED <<call, snap, last>>
           ELSE /\ spans' = spans
                /\ Return(p, "noop", s.id, "ok")
    /\ ReleaseLock(p)
    /\ UNCHANGED <<events, now, calls, hist, gate>>

\* if wrote: emit_event(skill, step, event_type="subagent_step_delegate")
subagent_check_emit(p) ==
    /\ pc[p] = "del_emit"
    /\ emit_event(p, call[p].skill, call[p].step, "subagent_step_delegate")
    /\ Return(p, "append", snap[p].id, "ok")
    /\ UNCHANGED <<spans, now, lock, calls, hist, gate>>

----------------------------------------------------------------------------
(* step_gate: _build_contracts(skill), _get_span_steps and check(ctx) *)

ROOT_INPUTS == {"user-request"}
Artifacts == {"x", "y"} \cup ROOT_INPUTS

\* The frontmatter of one step file: produces, consumes and optional.
Frontmatter == [produces : SUBSET (Artifacts \ ROOT_INPUTS),
                consumes : SUBSET Artifacts,
                optional : BOOLEAN]

\* The step files of a skill's steps directory, one per step name; a is an
\* entry step, which consumes nothing.
StepFiles == {f \in [Steps -> Frontmatter] : f["a"].consumes = {}}

\* A steps directory with one dependency: a produces x, b consumes x.
ExampleFiles ==
    [st \in Steps |->
        IF st = "a"
        THEN [produces |-> {"x"}, consumes |-> {"user-request"}, optional |-> FALSE]
        ELSE [produces |-> {}, consumes |-> {"x"}, optional |-> FALSE]]

\* produces[artifact] = step_name for every file in glob order, a later file
\* overwriting an earlier one; the order of glob is the file system's, so any
\* of the steps that declare the artifact may be the one that stays.
build_contracts(files) ==
    { [produces |-> pm,
       consumes |-> [st \in Steps |-> files[st].consumes],
       optional |-> {st \in Steps : files[st].optional}] :
      pm \in { m \in [Artifacts -> Steps \cup {None}] :
                 \A a \in Artifacts :
                    IF \E st \in Steps : a \in files[st].produces
                    THEN m[a] \in Steps /\ a \in files[m[a]].produces
                    ELSE m[a] = None } }

\* The contracts a process can hold after _build_contracts.
Contracts == UNION {build_contracts(f) : f \in StepFiles}

ExampleContract == CHOOSE ct \in build_contracts(ExampleFiles) : TRUE

\* fetchone() returned no row: _get_span_steps returns None
NoRow == [found |-> FALSE, steps |-> <<>>]

\* SELECT steps FROM skill_span WHERE skill = ? AND status = 'active'
\* [AND session_id = ?] ORDER BY started_at DESC LIMIT 1
get_span_steps(skill, sess) ==
    LET act == ScopeRows(skill, {"active"}, sess)
    IN  IF act = {} THEN {NoRow}
        ELSE {[found |-> TRUE, steps |-> spans[i].steps] : i \in Latest(act)}

InSeq(x, q) == \E k \in DOMAIN q : q[k] = x

\* Mutant: a producer flagged optional is required like any other.
MissingAll(ct, step, visited) ==
    { <<a, ct.produces[a]>> : a \in
        { a \in ct.consumes[step] \ ROOT_INPUTS :
            /\ ct.produces[a] # None
            /\ ~InSeq(ct.produces[a], visited) } }

\* Mutant: the producer is looked for in last_step, not in steps.
MissingLastOnly(ct, step, visited) ==
    { <<a, ct.produces[a]>> : a \in
        { a \in ct.consumes[step] \ ROOT_INPUTS :
            /\ ct.produces[a] # None
            /\ (visited = <<>> \/ Last(visited) # ct.produces[a])
            /\ ct.produces[a] \notin ct.optional } }

\* The loop over step_consumes: the pairs (artifact, producer) of missing.
Missing(ct, step, visited) ==
    { <<a, ct.produces[a]>> : a \in
        { a \in ct.consumes[step] \ ROOT_INPUTS :
            /\ ct.produces[a] # None
            /\ ~InSeq(ct.produces[a], visited)
            /\ ct.produces[a] \notin ct.optional } }

\* The gate's process: the contract it has built, the arguments of its
\* check and what the check returned.
NoGate == [contract |-> ExampleContract, skill |-> None, step |-> None,
           session_id |-> None, decision |-> "none", missing |-> {},
           st |-> "none"]

GateResult(skill, step, sess, decision, missing, st) ==
    [contract |-> gate.contract, skill |-> skill, step |-> step,
     session_id |-> sess, decision |-> decision, missing |-> missing,
     st |-> st]

\* Mutant: the gate decides on None as on a span without steps.
DecideNoneAsEmpty(ct, step, visited) ==
    IF Missing(ct, step, visited.steps) # {}
    THEN <<"block", Missing(ct, step, visited.steps)>>
    ELSE <<"allow", {}>>

\* visited is None: allow; otherwise block iff missing is not empty.
Decide(ct, step, visited) ==
    IF ~visited.found THEN <<"allow", {}>>
    ELSE IF Missing(ct, step, visited.steps) # {}
         THEN <<"block", Missing(ct, step, visited.steps)>>
         ELSE <<"allow", {}>>

\* check(ctx) for a Read of /skills/<skill>/steps/<step>.md.  The one read
\* of the store is a SELECT outside any transaction: it sees the committed
\* table and waits for no lock.
step_gate_check(skill, step, sess) ==
    /\ IF gate.contract.consumes[step] \subseteq ROOT_INPUTS
       THEN gate' = GateResult(skill, step, sess, "allow", {}, "ok")
       ELSE \E visited \in get_span_steps(skill, sess) :
               LET d == Decide(gate.contract, step, visited)
               IN  gate' = GateResult(skill, step, sess, d[1], d[2], "ok")
    /\ UNCHANGED <<spans, events, now, lock, pc, call, snap, last, calls, hist>>

\* Mutant: a failed read of the store blocks the step.
GateFailClosed(skill, step, sess) ==
    GateResult(skill, step, sess, "block", {}, "error")

\* except Exception in _get_span_steps: return None, which check allows.
GateFailOpen(skill, step, sess) ==
    GateResult(skill, step, sess, "allow", {}, "error")

\* The same check when open_db or the SELECT raises.
step_gate_unavailable(skill, step, sess) ==
    /\ ~(gate.contract.consumes[step] \subseteq ROOT_INPUTS)
    /\ gate' = GateFailOpen(skill, step, sess)
    /\ UNCHANGED <<spans, events, now, lock, pc, call, snap, last, calls, hist>>

----------------------------------------------------------------------------
(* Failures and time *)

\* busy_timeout=5000 runs out while another process holds the write lock:
\* the first statement that needs the lock raises "database is locked" and
\* the handler's except clause turns that into a return of None.
CallBusy(p, op) ==
    /\ lock \notin {NoProc, p}
    /\ StartReturn(p, [NoCall EXCEPT !.op = op], "none", NoSpan, "error")
    /\ UNCHANGED <<spans, events, now, lock, gate>>

\* The same for the UPDATE of a close_active_skill_session in progress.
LockTimeout(p) ==
    /\ pc[p] = "ca_update"
    /\ lock \notin {NoProc, p}
    /\ Return(p, "none", NoSpan, "error")
    /\ UNCHANGED <<spans, events, now, lock, calls, hist, gate>>

\* Mutant: the INSERT or UPDATE of the failed call stays in the table.
StorageErrorNoRollback(p) ==
    /\ pc[p] \in {"goc_write", "del_write"}
    /\ spans' = IF snap[p].id # NoSpan
                THEN [spans EXCEPT ![snap[p].id] =
                          AppendStep(spans[snap[p].id], snap[p].steps, SKILL)]
                ELSE Append(spans, NewSpan(call[p].skill, snap[p].parent_span_id,
                                           call[p].step, call[p].session_id, now))
    /\ Return(p, "none", NoSpan, "error")
    /\ ReleaseLock(p)
    /\ UNCHANGED <<events, now, calls, gate>>

\* Any other sqlite3 error inside the exclusive transaction: the connection
\* closes without commit (rollback) and the except clause returns None.
StorageError(p) ==
    /\ pc[p] \in {"goc_write", "del_write"}
    /\ Return(p, "none", NoSpan, "error")
    /\ ReleaseLock(p)
    /\ UNCHANGED <<spans, events, now, calls, gate>>

Tick ==
    /\ now < MaxClock
    /\ now' = now + 1
    /\ UNCHANGED <<spans, events, lock, pc, call, snap, last, calls, hist, gate>>

----------------------------------------------------------------------------
(* The system: any process may run any handler at any time *)

Init ==
    /\ spans = <<>>
    /\ events = <<>>
    /\ now = 1
    /\ lock = NoProc
    /\ pc = [p \in AllProcs |-> "idle"]
    /\ call = [p \in AllProcs |-> NoCall]
    /\ snap = [p \in AllProcs |-> NoSnap]
    /\ last = NoLast
    /\ calls = 0
    /\ hist = <<>>
    /\ gate = NoGate

Next ==
    \/ \E p \in Procs, k \in Skills, st \in StepArgs, s \in SessionArgs :
          get_or_create_span_begin(p, k, st, s) /\ UNCHANGED hist
    \/ \E p \in Procs : get_or_create_span_commit(p) /\ UNCHANGED hist
    \/ \E p \in Procs, k \in Skills, s \in SessionArgs : suspend_current_span(p, k, s)
    \/ \E p \in Procs : close_active_skill_session_skip(p)
    \/ \E p \in Procs, s \in Sessions : close_active_skill_session_select(p, s)
    \/ \E p \in Procs : close_active_skill_session_emit(p)
    \/ \E p \in Procs : close_active_skill_session_update(p)
    \/ \E p \in Procs, k \in Skills, st \in Steps, s \in SessionArgs :
          subagent_check_begin(p, k, st, s)
    \/ \E p \in Procs : subagent_check_commit(p)
    \/ \E p \in Procs : subagent_check_emit(p)
    \/ \E p \in Procs, op \in {"goc", "sus", "del"} :
          CallBusy(p, op) /\ UNCHANGED hist
    \/ \E p \in Procs : LockTimeout(p)
    \/ \E p \in Procs : StorageError(p) /\ UNCHANGED hist
    \/ Tick

Spec == Init /\ [][Next]_vars

----------------------------------------------------------------------------
(* Race scenario: every process of RaceProcs calls _get_or_create_span    *)
(* once for the pair (RaceSkill, RaceSession), all at the same time; the   *)
(* order in which BEGIN EXCLUSIVE is granted is open.  hist records the    *)
(* calls in that order, each with its step argument and its result.        *)

RaceSkill == "A"
RaceSession == "s1"
RaceSteps == {"a", "b", "c"}

Called(p) == \E k \in DOMAIN hist : hist[k].proc = p

HistSet(p, st, id) ==
    [k \in DOMAIN hist |->
        IF hist[k].proc = p THEN [hist[k] EXCEPT !.st = st, !.id = id]
        ELSE hist[k]]

Race_Enter(p, step) ==
    /\ ~Called(p)
    /\ get_or_create_span_begin(p, RaceSkill, step, RaceSession)
    /\ hist' = Append(hist, [proc |-> p, step |-> step, st |-> "pending",
                             id |-> NoSpan])

Race_Write(p) ==
    /\ get_or_create_span_commit(p)
    /\ hist' = HistSet(p, "ok", last'.id)

Race_Busy(p) ==
    /\ ~Called(p)
    /\ CallBusy(p, "goc")
    /\ hist' = Append(hist, [proc |-> p, step |-> None, st |-> "error",
                             id |-> NoSpan])

Race_Error(p) ==
    /\ StorageError(p)
    /\ hist' = HistSet(p, "error", NoSpan)

RaceNext ==
    \/ \E p \in RaceProcs, st \in RaceSteps \cup {None} : Race_Enter(p, st)
    \/ \E p \in RaceProcs : Race_Write(p)
    \/ \E p \in RaceProcs : Race_Busy(p)
    \/ \E p \in RaceProcs : Race_Error(p)

\* The table before the race, as earlier calls leave it.
ClosedRow(row, t) == [row EXCEPT !.status = "completed", !.completed_at = t]

InitRace(tables) ==
    /\ spans \in tables
    /\ events = <<>>
    /\ now \in 1..MaxClock
    /\ lock = NoProc
    /\ pc = [p \in AllProcs |-> "idle"]
    /\ call = [p \in AllProcs |-> NoCall]
    /\ snap = [p \in AllProcs |-> NoSnap]
    /\ last = NoLast
    /\ calls = 0
    /\ hist = <<>>
    /\ gate = NoGate

\* No active or suspended span of the pair: an empty table, the pair's span
\* completed by a session end, another procedure's span open in the session.
TablesNoOpen ==
    { <<>>,
      <<ClosedRow(NewSpan(RaceSkill, NoSpan, "a", RaceSession, 1), 1)>>,
      <<NewSpan("B", NoSpan, None, RaceSession, 1)>> }

\* The pair's span is active, with the one entry of its creation.
TablesActive ==
    { <<NewSpan(RaceSkill, NoSpan, st, RaceSession, 1)>> : st \in {None, "a"} }

SpecRaceCreate == InitRace(TablesNoOpen) /\ [][RaceNext]_vars

SpecRaceAppend == InitRace(TablesActive) /\ [][RaceNext]_vars

----------------------------------------------------------------------------
(* Ancestry scenario: three procedures in one session, so that a new span  *)
(* can have more than one open span of another procedure to descend from.  *)

AncSkills == {"A", "B", "C"}
AncSteps == {None, "a"}

AncNext ==
    \/ \E p \in Procs, k \in AncSkills, st \in AncSteps, s \in SessionArgs :
          get_or_create_span_begin(p, k, st, s) /\ UNCHANGED hist
    \/ \E p \in Procs : get_or_create_span_commit(p) /\ UNCHANGED hist
    \/ \E p \in Procs, k \in AncSkills, s \in SessionArgs : suspend_current_span(p, k, s)
    \/ \E p \in Procs, s \in Sessions : close_active_skill_session_select(p, s)
    \/ \E p \in Procs : close_active_skill_session_emit(p)
    \/ \E p \in Procs : close_active_skill_session_update(p)
    \/ \E p \in Procs : LockTimeout(p)
    \/ Tick

SpecAncestry == Init /\ [][AncNext]_vars

----------------------------------------------------------------------------
(* Gate scenario: reads of step files are checked by the gate, for any      *)
(* contents of the steps directory, while the spans of the skill are        *)
(* created, extended, suspended and completed.                              *)

GateProc == "p1"
GateSkill == "A"

GateNext ==
    \/ \E st \in StepArgs, s \in Sessions :
          get_or_create_span_begin(GateProc, GateSkill, st, s) /\ UNCHANGED hist
    \/ get_or_create_span_commit(GateProc) /\ UNCHANGED hist
    \/ \E s \in Sessions : suspend_current_span(GateProc, GateSkill, s)
    \/ \E s \in Sessions : close_active_skill_session_select(GateProc, s)
    \/ close_active_skill_session_emit(GateProc)
    \/ close_active_skill_session_update(GateProc)
    \/ \E st \in Steps, s \in SessionArgs : step_gate_check(GateSkill, st, s)
    \/ \E st \in Steps, s \in SessionArgs : step_gate_unavailable(GateSkill, st, s)

\* Any contents of the steps directory.
InitGate ==
    /\ spans = <<>>
    /\ events = <<>>
    /\ now = 1
    /\ lock = NoProc
    /\ pc = [p \in AllProcs |-> "idle"]
    /\ call = [p \in AllProcs |-> NoCall]
    /\ snap = [p \in AllProcs |-> NoSnap]
    /\ last = NoLast
    /\ calls = 0
    /\ hist = <<>>
    /\ gate \in {[NoGate EXCEPT !.contract = ct] : ct \in Contracts}

SpecGate == InitGate /\ [][GateNext]_vars

----------------------------------------------------------------------------
(* Isolation scenario: the handlers are called for two sessions, each call  *)
(* with its session id, against the contract of ExampleFiles.               *)

Sessions2 == {"s1", "s2"}
IsoProc == "p1"

IsoNext ==
    \/ \E k \in Skills, st \in StepArgs, s \in Sessions2 :
          get_or_create_span_begin(IsoProc, k, st, s) /\ UNCHANGED hist
    \/ get_or_create_span_commit(IsoProc) /\ UNCHANGED hist
    \/ \E k \in Skills, s \in Sessions2 : suspend_current_span(IsoProc, k, s)
    \/ \E s \in Sessions2 : close_active_skill_session_select(IsoProc, s)
    \/ close_active_skill_session_emit(IsoProc)
    \/ close_active_skill_session_update(IsoProc)
    \/ \E k \in Skills, st \in Steps, s \in Sessions2 :
          subagent_check_begin(IsoProc, k, st, s)
    \/ subagent_check_commit(IsoProc)
    \/ subagent_check_emit(IsoProc)
    \/ \E k \in Skills, st \in Steps, s \in Sessions2 : step_gate_check(k, st, s)

SpecIsolation == Init /\ [][IsoNext]_vars

----------------------------------------------------------------------------
(* Precedence scenario: calls on tables where a procedure has an active    *)
(* span recorded without a session beside a suspended span of a session,   *)
(* as left by a call without a session id, a call with one and a suspend.  *)

\* The row after UPDATE ... SET status = 'suspended', suspended_at = now.
SuspendedRow(row, t) == [row EXCEPT !.status = "suspended", !.suspended_at = t]

TablesMixed ==
    { <<NewSpan("A", NoSpan, "a", None, 1),
        SuspendedRow(NewSpan("A", NoSpan, "a", "s1", 1), 1)>>,
      <<SuspendedRow(NewSpan("A", NoSpan, None, "s1", 1), 1)>>,
      <<NewSpan("A", NoSpan, None, "s1", 1)>>,
      <<>> }

PrecNext ==
    \/ \E p \in Procs, k \in Skills, st \in StepArgs, s \in SessionArgs :
          get_or_create_span_begin(p, k, st, s) /\ UNCHANGED hist
    \/ \E p \in Procs : get_or_create_span_commit(p) /\ UNCHANGED hist
    \/ \E p \in Procs, k \in Skills, s \in SessionArgs : suspend_current_span(p, k, s)
    \/ Tick

SpecPrecedence == InitRace(TablesMixed) /\ [][PrecNext]_vars

----------------------------------------------------------------------------
(* Event scenario: emit_event called with any arguments, while another     *)
(* process may hold the write lock inside get_or_create_span.              *)

EmptySkill == ""
EmptyPayload == ""
Raised == "raised"
PayloadArgs == {None, "empty", "dict", "unserializable"}
EmitSkills == Skills \cup {EmptySkill}
EmitSessions == {EmptySession, "s1"}

\* json.dumps(payload) if payload else "": None and {} are falsy; a dict
\* holding a value json cannot encode makes json.dumps raise TypeError.
payload_dumps(payload) ==
    IF payload \in {None, "empty"} THEN EmptyPayload
    ELSE IF payload = "dict" THEN "{json}"
    ELSE Raised

\* skill: str = Field(min_length=1): the model rejects an empty skill with
\* a ValidationError.
LifeEventValid(skill) == skill # EmptySkill

\* The row of the INSERT, with the session id and the encoded payload.
LifeEventRow(skill, phase, etype, sess, payload) ==
    [skill |-> skill, phase |-> phase, event_type |-> etype,
     session_id |-> sess, payload |-> payload_dumps(payload)]

EmitCall == [op |-> "emit", skill |-> None, step |-> None, session_id |-> None]

\* emit_event(skill, phase, event_type, session_id, payload), the whole call.
\* The LifeEvent is built before the try block: what its construction raises
\* reaches the caller.  Inside the try, the INSERT commits and the id is
\* returned, or the lock timeout is caught and None is returned.
emit_event_call(p, skill, phase, etype, sess, payload) ==
    /\ IF payload_dumps(payload) = Raised \/ ~LifeEventValid(skill)
       THEN /\ StartReturn(p, EmitCall, "raise", NoSpan, Raised)
            /\ events' = events
       ELSE IF lock = NoProc
       THEN /\ StartReturn(p, EmitCall, "insert", Len(events) + 1, "ok")
            /\ events' = Append(events,
                                LifeEventRow(skill, phase, etype, sess, payload))
       ELSE /\ StartReturn(p, EmitCall, "none", NoSpan, "error")
            /\ events' = events
    /\ UNCHANGED <<spans, now, lock, hist, gate>>

EmitNext ==
    \/ \E p \in Procs, k \in EmitSkills, s \in EmitSessions, pl \in PayloadArgs :
          emit_event_call(p, k, "a", "phase_enter", s, pl)
    \/ \E p \in Procs, k \in Skills :
          get_or_create_span_begin(p, k, None, "s1") /\ UNCHANGED hist
    \/ \E p \in Procs : get_or_create_span_commit(p) /\ UNCHANGED hist

SpecEmit == Init /\ [][EmitNext]_vars

----------------------------------------------------------------------------
(* Hook scenario: every Read of a step file passes the PreToolUse gate and, *)
(* when allowed, the PostToolUse log_step_enter; a Read of SKILL.md goes to *)
(* log_step_enter directly.  Nothing else writes the spans.                 *)

HookSession == "s1"

\* What log_step_enter keeps between its statements: prev_skill, then the
\* row _get_or_create_span selected.
LogSnap(s, prev) ==
    [branch |-> s.branch, id |-> s.id, steps |-> s.steps,
     parent_span_id |-> s.parent_span_id, prev_skill |-> prev]

\* The Read the gate allowed has run: check(ctx) returned None for it.
GateAllowed(skill, step, sess) ==
    /\ gate.skill = skill
    /\ gate.step = step
    /\ gate.session_id = sess
    /\ gate.decision = "allow"

\* SELECT skill FROM skill_span WHERE status = 'active' AND skill != ?
\* [AND session_id = ?] ORDER BY started_at DESC LIMIT 1
log_step_enter_prev(skill, sess) ==
    LET act == OtherSkillRows(skill, {"active"}, sess)
    IN  IF act = {} THEN {None} ELSE {spans[i].skill : i \in Latest(act)}

\* log_step_enter(ctx) up to prev_skill: the SELECT runs outside any
\* transaction and waits for no lock.
log_step_enter_select(p, skill, step, sess) ==
    /\ step # None => GateAllowed(skill, step, sess)
    /\ \E prev \in log_step_enter_prev(skill, sess) :
          /\ Start(p, [op |-> "log", skill |-> skill, step |-> step,
                       session_id |-> sess],
                   IF prev = None THEN "log_goc" ELSE "log_suspend")
          /\ snap' = [snap EXCEPT ![p] = LogSnap(NoSnap, prev)]
    /\ gate' = [gate EXCEPT !.decision = "none"]
    /\ UNCHANGED <<spans, events, now, lock, last, hist>>

\* if prev_skill: emit_event(prev_skill, "session_end") and
\* _suspend_current_span(prev_skill, session_id).  Both fail open when
\* another process holds the write lock past the busy timeout.
log_step_enter_suspend(p) ==
    /\ pc[p] = "log_suspend"
    /\ emit_event(p, snap[p].prev_skill, "session_end", "session_end")
    /\ spans' = IF lock = NoProc
                THEN SuspendRows(snap[p].prev_skill, call[p].session_id)
                ELSE spans
    /\ pc' = [pc EXCEPT ![p] = "log_goc"]
    /\ UNCHANGED <<now, lock, call, snap, last, calls, hist, gate>>

\* _get_or_create_span: BEGIN EXCLUSIVE and the SELECTs.
log_step_enter_begin(p) ==
    /\ pc[p] = "log_goc"
    /\ AcquireLock(p)
    /\ \E s \in get_or_create_span_select(call[p].skill, call[p].session_id) :
          snap' = [snap EXCEPT ![p] = LogSnap(s, snap[p].prev_skill)]
    /\ pc' = [pc EXCEPT ![p] = "log_write"]
    /\ UNCHANGED <<spans, events, now, call, last, calls, hist, gate>>

\* The lock is held by another process past the busy timeout:
\* _get_or_create_span returns None and the emit_event calls that follow
\* fail open on the same lock.
log_step_enter_busy(p) ==
    /\ pc[p] = "log_goc"
    /\ lock \notin {NoProc, p}
    /\ Return(p, "none", NoSpan, "error")
    /\ UNCHANGED <<spans, events, now, lock, calls, hist, gate>>

\* The events log_step_enter emits once the span is written.
LogEvents(skill, step, prev) ==
    (IF prev # None
     THEN <<LifeEvent(skill, "session_start", "session_start")>>
     ELSE <<>>)
    \o <<LifeEvent(skill, IF step # None THEN step ELSE SKILL, "step_enter")>>

\* The branch's UPDATE or INSERT and commit, then session_start on a switch
\* and step_enter; the context queries that follow only read.
log_step_enter_commit(p) ==
    /\ pc[p] = "log_write"
    /\ LET c == call[p]
           s == snap[p]
       IN  /\ \/ /\ s.branch = "append"
                 /\ spans' = IF c.step # None
                             THEN [spans EXCEPT ![s.id] =
                                       AppendStep(spans[s.id], s.steps, c.step)]
                             ELSE spans
                 /\ Return(p, "append", s.id, "ok")
              \/ /\ s.branch = "resume"
                 /\ spans' = [spans EXCEPT ![s.id] =
                                   ResumeRow(spans[s.id], s.steps, c.step)]
                 /\ Return(p, "resume", s.id, "ok")
              \/ /\ s.branch = "create"
                 /\ spans' = Append(spans,
                                    NewSpan(c.skill, s.parent_span_id, c.step,
                                            c.session_id, now))
                 /\ Return(p, "create", Len(spans) + 1, "ok")
           /\ events' = events \o LogEvents(c.skill, c.step, s.prev_skill)
    /\ ReleaseLock(p)
    /\ UNCHANGED <<now, calls, hist, gate>>

\* The hooks of concurrent processes of one session.
HookNext ==
    \/ \E k \in Skills, st \in Steps : step_gate_check(k, st, HookSession)
    \/ \E p \in Procs, k \in Skills, st \in StepArgs :
          log_step_enter_select(p, k, st, HookSession)
    \/ \E p \in Procs : log_step_enter_suspend(p)
    \/ \E p \in Procs : log_step_enter_begin(p)
    \/ \E p \in Procs : log_step_enter_busy(p)
    \/ \E p \in Procs : log_step_enter_commit(p)

SpecHook == Init /\ [][HookNext]_vars

\* The hooks of one process: one Read after the other.
HookFlowNext ==
    \/ \E k \in Skills, st \in Steps :
          pc[GateProc] = "idle" /\ step_gate_check(k, st, HookSession)
    \/ \E k \in Skills, st \in StepArgs :
          log_step_enter_select(GateProc, k, st, HookSession)
    \/ log_step_enter_suspend(GateProc)
    \/ log_step_enter_begin(GateProc)
    \/ log_step_enter_commit(GateProc)

SpecHookFlow == Init /\ [][HookFlowNext]_vars

----------------------------------------------------------------------------
(* Identifier scenario: the span_id of every INSERT is drawn at random, as  *)
(* uuid4 draws it, from a set small enough for a draw to repeat; hist holds *)
(* the span_id of each row of the table.                                    *)

\* span_id = str(uuid.uuid4())[:12]
SpanIds == {"u1", "u2", "u3"}

\* Mutant: the column has no PRIMARY KEY constraint.
PrimaryKeyFreeAlways(id) == TRUE

\* span_id TEXT PRIMARY KEY: the INSERT of a stored id raises IntegrityError.
PrimaryKeyFree(id) == \A i \in DOMAIN hist : hist[i] # id

\* The write of a call in progress: an UPDATE keeps the row's id; an INSERT
\* draws one, and on a stored id fails, rolls back and returns None.
Ids_Write(p) ==
    /\ pc[p] = "goc_write"
    /\ IF snap[p].branch # "create"
       THEN get_or_create_span_commit(p) /\ hist' = hist
       ELSE \E id \in SpanIds :
               IF PrimaryKeyFree(id)
               THEN get_or_create_span_commit(p) /\ hist' = Append(hist, id)
               ELSE StorageError(p) /\ hist' = hist

IdsNext ==
    \/ \E p \in Procs, k \in Skills, st \in StepArgs, s \in Sessions :
          get_or_create_span_begin(p, k, st, s) /\ UNCHANGED hist
    \/ \E p \in Procs : Ids_Write(p)
    \/ \E p \in Procs, k \in Skills, s \in Sessions : suspend_current_span(p, k, s)
    \/ \E p \in Procs, s \in Sessions : close_active_skill_session_select(p, s)
    \/ \E p \in Procs : close_active_skill_session_emit(p)
    \/ \E p \in Procs : close_active_skill_session_update(p)

SpecIds == Init /\ [][IdsNext]_vars

----------------------------------------------------------------------------
(* Crash scenario: a process may die inside the exclusive transaction of   *)
(* _get_or_create_span or of subagent_step_tracker.check, at any point     *)
(* between BEGIN EXCLUSIVE and commit.                                     *)

\* Mutant: the lock of the dead process stays in place.
CrashKeepsLock(p) ==
    /\ pc[p] \in {"goc_write", "del_write"}
    /\ Return(p, "none", NoSpan, "crashed")
    /\ UNCHANGED <<spans, events, now, lock, calls, hist, gate>>

\* The process dies with its transaction open: its connection is gone, the
\* store drops the uncommitted writes and the lock of the connection, and
\* nothing is returned to anyone.
Crash(p) ==
    /\ pc[p] \in {"goc_write", "del_write"}
    /\ Return(p, "none", NoSpan, "crashed")
    /\ ReleaseLock(p)
    /\ UNCHANGED <<spans, events, now, calls, hist, gate>>

CrashNext ==
    \/ \E p \in Procs, k \in Skills, st \in StepArgs, s \in Sessions :
          get_or_create_span_begin(p, k, st, s) /\ UNCHANGED hist
    \/ \E p \in Procs : get_or_create_span_commit(p) /\ UNCHANGED hist
    \/ \E p \in Procs, k \in Skills, st \in Steps, s \in Sessions :
          subagent_check_begin(p, k, st, s)
    \/ \E p \in Procs : subagent_check_commit(p) /\ UNCHANGED hist
    \/ \E p \in Procs : subagent_check_emit(p)
    \/ \E p \in Procs, k \in Skills, s \in Sessions : suspend_current_span(p, k, s)
    \/ \E p \in Procs, op \in {"goc", "del"} : CallBusy(p, op) /\ UNCHANGED hist
    \/ \E p \in Procs : Crash(p)

SpecCrash == Init /\ [][CrashNext]_vars

----------------------------------------------------------------------------
(* Scheduling scenario: the handlers of two processes of one session, each *)
(* process running to the end of the handler it has started.               *)

LiveSkill == "A"

\* The next statement of the handler p is in.
LiveStep(p) ==
    \/ log_step_enter_suspend(p)
    \/ log_step_enter_begin(p)
    \/ log_step_enter_busy(p)
    \/ log_step_enter_commit(p)
    \/ subagent_check_commit(p)
    \/ subagent_check_emit(p)
    \/ close_active_skill_session_emit(p)
    \/ close_active_skill_session_update(p)
    \/ LockTimeout(p)

LiveNext ==
    \/ \E p \in Procs, k \in Skills :
          log_step_enter_select(p, k, None, HookSession)
    \/ \E p \in Procs, st \in Steps :
          subagent_check_begin(p, LiveSkill, st, HookSession)
    \/ \E p \in Procs : CallBusy(p, "del") /\ UNCHANGED hist
    \/ \E p \in Procs : close_active_skill_session_select(p, HookSession)
    \/ \E p \in Procs : LiveStep(p)

\* The operating system runs every live process: a handler that can take
\* its next statement takes it.
SpecLive ==
    /\ Init
    /\ [][LiveNext]_vars
    /\ \A p \in Procs : WF_vars(LiveStep(p))

----------------------------------------------------------------------------
(* Parsing scenario: the steps directory holds files whose declaration may *)
(* be missing, invalid YAML, YAML that is not a mapping, or a mapping whose *)
(* produces is not a list; hist holds the directory as the gate reads it.   *)

DeclKinds == {"missing", "invalid_yaml", "not_mapping", "produces_not_list",
              "mapping"}

EmptyFrontmatter == [produces |-> {}, consumes |-> {}, optional |-> FALSE]

\* The declarations a step file may hold: a well-formed one, or none.
Declarations(st) ==
    {[kind |-> "mapping", fm |-> ExampleFiles[st]]}
    \cup {[kind |-> k, fm |-> EmptyFrontmatter] : k \in DeclKinds \ {"mapping"}}

DeclFiles == {f \in [Steps -> UNION {Declarations(st) : st \in Steps}] :
                \A st \in Steps : f[st] \in Declarations(st)}

\* re.match fails or yaml.safe_load raises YAMLError: continue.  Anything
\* else that safe_load returns goes on to fm.get(...): a list or a scalar
\* has no get (AttributeError), and a produces that is a number or null
\* cannot be iterated (TypeError); neither is caught.
parse_raises(files) ==
    \E st \in Steps : files[st].kind \in {"not_mapping", "produces_not_list"}

\* What the loop of _build_contracts takes from each file: the mapping of a
\* well-formed declaration, nothing from a file it skips.
parsed_files(files) ==
    [st \in Steps |-> IF files[st].kind = "mapping" THEN files[st].fm
                      ELSE EmptyFrontmatter]

\* check(ctx) on a directory read at the call: _build_contracts, then the
\* decision; an exception of _build_contracts leaves check through no except
\* clause, and nothing is cached, so the next call parses again.
step_gate_check_files(skill, step, sess) ==
    /\ IF parse_raises(hist[1])
       THEN gate' = GateResult(skill, step, sess, "raise", {}, Raised)
       ELSE \E ct \in build_contracts(parsed_files(hist[1])) :
               IF ct.consumes[step] \subseteq ROOT_INPUTS
               THEN gate' = [GateResult(skill, step, sess, "allow", {}, "ok")
                                EXCEPT !.contract = ct]
               ELSE \E visited \in get_span_steps(skill, sess) :
                       LET d == Decide(ct, step, visited)
                       IN  gate' = [GateResult(skill, step, sess, d[1], d[2], "ok")
                                       EXCEPT !.contract = ct]
    /\ UNCHANGED <<spans, events, now, lock, pc, call, snap, last, calls, hist>>

ParseNext ==
    \/ \E st \in StepArgs, s \in Sessions :
          get_or_create_span_begin(GateProc, GateSkill, st, s) /\ UNCHANGED hist
    \/ get_or_create_span_commit(GateProc) /\ UNCHANGED hist
    \/ \E st \in Steps, s \in Sessions : step_gate_check_files(GateSkill, st, s)

InitParse ==
    /\ spans = <<>>
    /\ events = <<>>
    /\ now = 1
    /\ lock = NoProc
    /\ pc = [p \in AllProcs |-> "idle"]
    /\ call = [p \in AllProcs |-> NoCall]
    /\ snap = [p \in AllProcs |-> NoSnap]
    /\ last = NoLast
    /\ calls = 0
    /\ hist \in {<<f>> : f \in DeclFiles}
    /\ gate = NoGate

SpecParse == InitParse /\ [][ParseNext]_vars

----------------------------------------------------------------------------
(* Properties *)

\* NULL session_id is a value of its own in a (procedure, session_id) pair.
PairRows(skill, sess, statuses) ==
    {i \in DOMAIN spans : /\ spans[i].skill = skill
                          /\ spans[i].session_id = sess
                          /\ spans[i].status \in statuses}

\* C1: in every reachable state, whatever the interleaving of the handlers
\* of concurrent processes, each (procedure, session_id) pair has at most
\* one span whose status is active.
InvC1 ==
    \A k \in Skills, s \in SessionArgs :
        Cardinality(PairRows(k, s, {"active"})) <= 1

\* A pair with an active span beside an earlier, completed span of its own.
WitC1 ==
    \E k \in Skills, s \in Sessions :
        /\ PairRows(k, s, {"active"}) # {}
        /\ PairRows(k, s, {"completed"}) # {}

\* C2: processes that call get_or_create_span at the same time for a pair
\* without an active or suspended span create exactly one span row between
\* them, and every call that succeeds returns the id of that row.
InvC2 ==
    LET new == PairRows(RaceSkill, RaceSession, {"active", "suspended"})
        oks == {k \in DOMAIN hist : hist[k].st = "ok"}
    IN  /\ Cardinality(new) = IF oks = {} THEN 0 ELSE 1
        /\ \A k \in oks : hist[k].id \in new

\* All three calls of the race have returned a span id.
WitC2 ==
    /\ Len(hist) = Cardinality(RaceProcs)
    /\ \A k \in DOMAIN hist : hist[k].st = "ok"

\* C3: N concurrent calls with pairwise distinct step names against the
\* pair's active span, none of which failed, leave its steps as the initial
\* entry followed by the N step names in the order the lock was granted.
RaceOver == \A p \in RaceProcs : pc[p] = "idle"

DistinctSteps ==
    \A j, k \in DOMAIN hist :
        /\ hist[k].step # None
        /\ (j # k => hist[j].step # hist[k].step)

InvC3 ==
    (/\ RaceOver
     /\ \A k \in DOMAIN hist : hist[k].st = "ok"
     /\ DistinctSteps)
    => /\ Len(spans) = 1
       /\ spans[1].steps =
            <<spans[1].first_step>> \o [k \in DOMAIN hist |-> hist[k].step]
       /\ Len(spans[1].steps) = Len(hist) + 1

\* Three calls with three different step names have all succeeded.
WitC3 ==
    /\ RaceOver
    /\ Len(hist) = Cardinality(RaceProcs)
    /\ \A k \in DOMAIN hist : hist[k].st = "ok"
    /\ DistinctSteps

\* A step in which p's get_or_create_span commits and returns a span id.
GocReturns(p) ==
    /\ pc[p] = "goc_write"
    /\ pc'[p] = "idle"
    /\ last'.st = "ok"

\* C4: a get_or_create_span call for a pair (with a session id) returns an
\* active span of that pair; while the span a call returned is still active
\* (no suspend or complete_all since), every further call for the pair, with
\* or without a step, returns that same span and inserts no row.
ThmC4 ==
    [][\A p \in Procs :
         (GocReturns(p) /\ call[p].session_id # None) =>
            LET act == PairRows(call[p].skill, call[p].session_id, {"active"})
            IN  /\ last'.id \in DOMAIN spans'
                /\ spans'[last'.id].skill = call[p].skill
                /\ spans'[last'.id].session_id = call[p].session_id
                /\ spans'[last'.id].status = "active"
                /\ act # {} => /\ last'.id \in act
                               /\ Len(spans') = Len(spans)]_vars

\* The last call found the pair's active span and appended to it.
WitC4 ==
    /\ last.op = "goc"
    /\ last.branch = "append"
    /\ last.st = "ok"
    /\ spans[last.id].session_id \in Sessions
    /\ Len(spans[last.id].steps) >= 2

\* C5 (as claimed): a call whose step equals the entry recorded last in the
\* pair's active span leaves steps unchanged; any other step is appended.
ClaimC5 ==
    [][\A p \in Procs :
         (GocReturns(p) /\ call[p].session_id # None /\ call[p].step # None) =>
            \A i \in PairRows(call[p].skill, call[p].session_id, {"active"}) :
                spans'[i].steps =
                    IF Last(spans[i].steps) = call[p].step
                    THEN spans[i].steps
                    ELSE Append(spans[i].steps, call[p].step)]_vars

\* C6: when the pair's span is suspended, the next get_or_create_span for
\* the pair returns that span, active again, suspended_at cleared, with its
\* earlier steps kept (and the new step after them); no row is inserted.
ThmC6 ==
    [][\A p \in Procs :
         (/\ GocReturns(p)
          /\ call[p].session_id # None
          /\ PairRows(call[p].skill, call[p].session_id, {"active"}) = {}
          /\ PairRows(call[p].skill, call[p].session_id, {"suspended"}) # {}) =>
            \E i \in PairRows(call[p].skill, call[p].session_id, {"suspended"}) :
                /\ last'.id = i
                /\ Len(spans') = Len(spans)
                /\ spans'[i].status = "active"
                /\ spans'[i].suspended_at = NoTime
                /\ spans'[i].steps =
                       IF call[p].step # None
                       THEN Append(spans[i].steps, call[p].step)
                       ELSE spans[i].steps
                /\ \A j \in DOMAIN spans : j # i => spans'[j] = spans[j]]_vars

\* The last call resumed a suspended span and appended its step.
WitC6 ==
    /\ last.op = "goc"
    /\ last.branch = "resume"
    /\ last.st = "ok"
    /\ spans[last.id].session_id \in Sessions
    /\ spans[last.id].status = "active"
    /\ Len(spans[last.id].steps) >= 2

\* C7: rows are created active; a status changes only active -> suspended,
\* suspended -> active, active -> completed or suspended -> completed; a
\* completed row keeps its status, steps, last_step and completed_at.
StatusMoves ==
    { <<"active", "suspended">>, <<"suspended", "active">>,
      <<"active", "completed">>, <<"suspended", "completed">> }

ThmC7 ==
    [][/\ Len(spans') >= Len(spans)
       /\ \A i \in DOMAIN spans' :
            IF i \notin DOMAIN spans
            THEN spans'[i].status = "active"
            ELSE /\ spans'[i].status # spans[i].status =>
                        <<spans[i].status, spans'[i].status>> \in StatusMoves
                 /\ spans[i].status = "completed" =>
                        /\ spans'[i].status = "completed"
                        /\ spans'[i].steps = spans[i].steps
                        /\ spans'[i].last_step = spans[i].last_step
                        /\ spans'[i].completed_at = spans[i].completed_at]_vars

\* After a pair's span was completed, a call for the pair has created a new
\* span and the completed one is still completed.
WitC7 ==
    /\ last.op = "goc"
    /\ last.branch = "create"
    /\ last.st = "ok"
    /\ \E i \in DOMAIN spans :
          /\ i < last.id
          /\ spans[i].status = "completed"
          /\ spans[i].skill = spans[last.id].skill
          /\ spans[i].session_id = spans[last.id].session_id

\* C8: a span created for procedure B in a session gets as parent the span
\* of that session with the latest started_at among those of another
\* procedure that are active or suspended, and no parent when there is none.
ThmC8 ==
    [][\A p \in Procs :
         (/\ GocReturns(p)
          /\ Len(spans') = Len(spans) + 1
          /\ call[p].session_id # None) =>
            LET n == Len(spans')
                cand == {i \in DOMAIN spans :
                            /\ spans[i].session_id = call[p].session_id
                            /\ spans[i].skill # call[p].skill
                            /\ spans[i].status \in {"active", "suspended"}}
            IN  IF cand = {}
                THEN spans'[n].parent_span_id = NoSpan
                ELSE /\ spans'[n].parent_span_id \in cand
                     /\ \A j \in cand :
                          spans[j].started_at
                              <= spans[spans'[n].parent_span_id].started_at]_vars

\* The span just created descends from the later started of two open spans
\* of other procedures in its session.
WitC8 ==
    /\ last.op = "goc"
    /\ last.branch = "create"
    /\ spans[last.id].session_id \in Sessions
    /\ spans[last.id].parent_span_id # NoSpan
    /\ \E j \in DOMAIN spans :
          /\ j < last.id
          /\ spans[j].session_id = spans[last.id].session_id
          /\ spans[j].skill # spans[last.id].skill
          /\ spans[j].status \in {"active", "suspended"}
          /\ spans[j].started_at < spans[spans[last.id].parent_span_id].started_at

\* The open spans of a session, read off the table.
OpenIn(s) ==
    {i \in DOMAIN spans : /\ spans[i].session_id = s
                          /\ spans[i].status \in {"active", "suspended"}}

\* A step in which p's complete_all commits its UPDATE and returns.
CaReturns(p) ==
    /\ pc[p] = "ca_update"
    /\ pc'[p] = "idle"
    /\ last'.st = "ok"

\* C9: when complete_all(session) returns without a storage error, every
\* span of the session is completed and has completed_at; the spans of a
\* session that get completed do so in one step that leaves none open.
ThmC9 ==
    [][/\ \A p \in Procs :
            CaReturns(p) =>
                \A i \in DOMAIN spans' :
                    spans'[i].session_id = call[p].session_id =>
                        /\ spans'[i].status = "completed"
                        /\ spans'[i].completed_at # NoTime
       /\ \A s \in Sessions :
            (\E i \in OpenIn(s) : spans'[i].status = "completed") =>
                \A j \in DOMAIN spans' :
                    spans'[j].session_id = s => spans'[j].status = "completed"]_vars

\* A session end has completed a span that was suspended.
WitC9 ==
    /\ last.op = "ca"
    /\ last.branch = "complete"
    /\ last.st = "ok"
    /\ \E i \in DOMAIN spans :
          /\ spans[i].session_id \in Sessions
          /\ spans[i].status = "completed"
          /\ spans[i].completed_at # NoTime
          /\ spans[i].suspended_at # NoTime

\* C10: a complete_all that runs on a session without an active or suspended
\* span emits no event and changes no span row, completed_at included.
ThmC10 ==
    [][\A p \in Procs :
         /\ (/\ pc[p] = "idle"
             /\ call'[p].op = "ca"
             /\ OpenIn(call'[p].session_id) = {}) =>
                /\ pc'[p] = "ca_update"
                /\ spans' = spans
                /\ events' = events
         /\ (CaReturns(p) /\ OpenIn(call[p].session_id) = {}) =>
                /\ spans' = spans
                /\ events' = events]_vars

\* A later complete_all found nothing open in a session whose span an
\* earlier one had completed.
WitC10 ==
    /\ last.op = "ca"
    /\ last.branch = "noop"
    /\ last.st = "ok"
    /\ \E i \in DOMAIN spans :
          /\ spans[i].session_id \in Sessions
          /\ spans[i].status = "completed"
          /\ spans[i].completed_at < now

\* A step in which the gate returns from a check that read the store.
GateReturns ==
    /\ gate' # gate
    /\ gate'.st = "ok"
    /\ gate'.session_id # None

\* The artifacts the checked step consumes that are not root inputs.
Needs(g) == g.contract.consumes[g.step] \ ROOT_INPUTS

\* C11: while the pair has an active span, the gate blocks a step that
\* consumes an artifact whose producer is not optional and not in the
\* span's steps, and allows the step once the producers of what it consumes
\* are in the span's steps.
ThmC11 ==
    [][GateReturns =>
         \A i \in PairRows(gate'.skill, gate'.session_id, {"active"}) :
            LET g == gate'
                pm == g.contract.produces
            IN  /\ (\E x \in Needs(g) :
                        /\ pm[x] # None
                        /\ pm[x] \notin g.contract.optional
                        /\ ~InSeq(pm[x], spans[i].steps))
                    => g.decision = "block"
                /\ (\A x \in Needs(g) :
                        pm[x] # None /\ InSeq(pm[x], spans[i].steps))
                    => g.decision = "allow"]_vars

\* The gate has blocked a step of a span that was created without a step.
WitC11 ==
    /\ gate.decision = "block"
    /\ gate.session_id \in Sessions
    /\ \E i \in PairRows(gate.skill, gate.session_id, {"active"}) :
          spans[i].steps = <<SKILL>>

\* C12: when the pair has no active span (never entered, or only suspended
\* or completed spans) the gate allows any step, whatever it consumes.
ThmC12 ==
    [][(GateReturns /\ PairRows(gate'.skill, gate'.session_id, {"active"}) = {})
         => /\ gate'.decision = "allow"
            /\ gate'.missing = {}]_vars

\* The gate has allowed a step whose producer was never visited, the pair's
\* only span being suspended.
WitC12 ==
    /\ gate.decision = "allow"
    /\ gate.st = "ok"
    /\ gate.session_id \in Sessions
    /\ PairRows(gate.skill, gate.session_id, {"active"}) = {}
    /\ \E i \in PairRows(gate.skill, gate.session_id, {"suspended"}) :
          \E x \in Needs(gate) :
             /\ gate.contract.produces[x] # None
             /\ gate.contract.produces[x] \notin gate.contract.optional
             /\ ~InSeq(gate.contract.produces[x], spans[i].steps)

\* C13: with an active span in scope, a step of which every producer that
\* is not in the span's steps is optional is allowed, and no optional
\* producer is ever named in a block.
ThmC13 ==
    [][GateReturns =>
         /\ \A i \in PairRows(gate'.skill, gate'.session_id, {"active"}) :
               LET g == gate'
                   pm == g.contract.produces
               IN  (\A x \in Needs(g) :
                       /\ pm[x] # None
                       /\ (InSeq(pm[x], spans[i].steps)
                              \/ pm[x] \in g.contract.optional))
                   => g.decision = "allow"
         /\ \A m \in gate'.missing : m[2] \notin gate'.contract.optional]_vars

\* The gate has allowed a step although an optional producer of what it
\* consumes is not in the active span's steps.
WitC13 ==
    /\ gate.decision = "allow"
    /\ gate.st = "ok"
    /\ gate.session_id \in Sessions
    /\ \E i \in PairRows(gate.skill, gate.session_id, {"active"}) :
          \E x \in Needs(gate) :
             /\ gate.contract.produces[x] \in gate.contract.optional
             /\ ~InSeq(gate.contract.produces[x], spans[i].steps)

\* C14 (as claimed): with an active span in scope, a consumed artifact is
\* satisfied iff it is a root input, or its producer is in the span's steps,
\* or its producer is optional; any other, one without a producer included,
\* is unsatisfied; the gate blocks iff some artifact is unsatisfied and names
\* exactly the unsatisfied artifacts with their producers.
ClaimC14 ==
    [][GateReturns =>
         \A i \in PairRows(gate'.skill, gate'.session_id, {"active"}) :
            LET g == gate'
                pm == g.contract.produces
                unsat == {x \in g.contract.consumes[g.step] :
                            ~ \/ x \in ROOT_INPUTS
                              \/ pm[x] # None /\ InSeq(pm[x], spans[i].steps)
                              \/ pm[x] # None /\ pm[x] \in g.contract.optional}
            IN  /\ g.decision = "block" <=> unsat # {}
                /\ g.missing = {<<x, pm[x]>> : x \in unsat}]_vars

\* C18: a gate check whose read of the span store fails returns allow, as
\* it does without an active span, whatever the table holds.
ThmC18 ==
    [][(gate' # gate /\ gate'.st = "error")
         => /\ gate'.decision = "allow"
            /\ gate'.missing = {}]_vars

\* The read failed on a check that the pair's active span would have blocked.
WitC18 ==
    /\ gate.st = "error"
    /\ gate.decision = "allow"
    /\ gate.session_id \in Sessions
    /\ \E i \in PairRows(gate.skill, gate.session_id, {"active"}) :
          \E x \in Needs(gate) :
             /\ gate.contract.produces[x] # None
             /\ gate.contract.produces[x] \notin gate.contract.optional
             /\ ~InSeq(gate.contract.produces[x], spans[i].steps)

\* A step in which p's record_delegated_step commits its transaction.
DelCommits(p) ==
    /\ pc[p] = "del_write"
    /\ pc'[p] # "del_write"
    /\ ~(pc'[p] = "idle" /\ last'.st = "error")

\* C15: record_delegated_step inserts no span row and changes no status;
\* when the pair has no active span, also with a suspended or completed
\* span of the pair in the table, it changes no span and emits no event.
ThmC15 ==
    [][\A p \in Procs :
         /\ (call[p].op = "del" /\ pc'[p] # pc[p]) =>
               /\ Len(spans') = Len(spans)
               /\ \A i \in DOMAIN spans : spans'[i].status = spans[i].status
         /\ (/\ DelCommits(p)
             /\ call[p].session_id # None
             /\ PairRows(call[p].skill, call[p].session_id, {"active"}) = {}) =>
               /\ spans' = spans
               /\ events' = events
               /\ pc'[p] = "idle"]_vars

\* A delegation in progress has found no active span of its pair, whose
\* span is suspended.
WitC15 ==
    \E p \in Procs :
        /\ pc[p] = "del_write"
        /\ snap[p].id = NoSpan
        /\ call[p].session_id \in Sessions
        /\ PairRows(call[p].skill, call[p].session_id, {"suspended"}) # {}

\* The subagent_step_delegate events of life_event.
DelegateEvents ==
    {k \in DOMAIN events : events[k].event_type = "subagent_step_delegate"}

\* The commit of a delegation: append iff the step differs from steps[-1].
DelAppendsIffNew(p) ==
    (DelCommits(p) /\ call[p].session_id # None) =>
        \A i \in PairRows(call[p].skill, call[p].session_id, {"active"}) :
           /\ events' = events
           /\ IF Last(spans[i].steps) # call[p].step
              THEN /\ spans'[i].steps = Append(spans[i].steps, call[p].step)
                   /\ spans'[i].last_step = call[p].step
                   /\ pc'[p] = "del_emit"
              ELSE /\ spans' = spans
                   /\ pc'[p] = "idle"

DelegateEvent(p) ==
    [skill |-> call[p].skill, phase |-> call[p].step,
     event_type |-> "subagent_step_delegate", session_id |-> EmptySession]

\* C16 (as claimed): with the pair's span active, record_delegated_step
\* appends the step and sets last_step iff the step differs from the last
\* entry of steps, and it emits exactly one subagent_step_delegate event
\* exactly when it appended.
ClaimC16 ==
    [][\A p \in Procs :
         /\ DelAppendsIffNew(p)
         /\ (pc[p] = "del_emit" /\ pc'[p] # "del_emit") =>
               /\ spans' = spans
               /\ events' = Append(events, DelegateEvent(p))]_vars

\* C16 (amended): the same, except that the event of an append is emitted
\* at most once and is dropped when its insert times out on the write lock
\* that another process holds.
ThmC16 ==
    [][\A p \in Procs :
         /\ DelAppendsIffNew(p)
         /\ (pc[p] = "del_emit" /\ pc'[p] # "del_emit") =>
               /\ spans' = spans
               /\ \/ events' = Append(events, DelegateEvent(p))
                  \/ events' = events /\ lock \notin {NoProc, p}]_vars

\* A delegation was recorded with its event, and its repetition left the
\* span and the events as they were.
WitC16 ==
    /\ last.op = "del"
    /\ last.branch = "noop"
    /\ last.st = "ok"
    /\ last.id # NoSpan
    /\ Len(spans[last.id].steps) = 2
    /\ Cardinality(DelegateEvents) = 1

\* A step in which a call of get_or_create_span, suspend or complete_all
\* ends on a storage error or a lock timeout.
FailsOpen(p) ==
    /\ last'.st = "error"
    /\ last'.op \in {"goc", "sus", "ca"}
    /\ \/ pc[p] # "idle" /\ pc'[p] = "idle"
       \/ pc[p] = "idle" /\ calls' # calls /\ UNCHANGED pc

\* C17: a storage error or lock timeout inside get_or_create_span, suspend
\* or complete_all ends the call with none and without a change to the span
\* table: the rows are what they were when the call read them, and the
\* write lock is no longer held by the caller.
ThmC17 ==
    [][\A p \in Procs :
         FailsOpen(p) =>
            /\ spans' = spans
            /\ last'.id = NoSpan
            /\ lock' # p
            /\ (pc[p] = "goc_write" /\ snap[p].id # NoSpan) =>
                   spans'[snap[p].id].steps = snap[p].steps]_vars

\* A session end timed out on its UPDATE after its event was emitted: the
\* spans of the session are still open.
WitC17 ==
    /\ last.op = "ca"
    /\ last.st = "error"
    /\ events # <<>>
    /\ \E i \in DOMAIN spans : spans[i].status \in {"active", "suspended"}

\* C19 (as claimed): create-or-append, resume, suspend and complete hold the
\* exclusive transaction from before their first read of span rows until
\* their write is committed, so that no other process writes between an
\* operation's read and its write.
ClaimC19 ==
    [][\A p \in Procs :
         (pc[p] \in {"goc_write", "ca_emit", "ca_update"} /\ pc'[p] = pc[p])
            => spans' = spans]_vars

\* The rows a step inserts or changes.
Touched ==
    {i \in DOMAIN spans' : i \notin DOMAIN spans \/ spans'[i] # spans[i]}

\* The open spans of other procedures in a session.
OthersOpenIn(skill, s) == {i \in OpenIn(s) : spans[i].skill # skill}

\* C20: an operation called with a session id touches no span of another
\* session, and what it returns is decided by the spans of its own session:
\* the span id and the parent of get_or_create_span, the append of
\* record_delegated_step, the event of complete_all, the gate's decision.
ThmC20 ==
    [][/\ \A i, j \in Touched : spans'[i].session_id = spans'[j].session_id
       /\ \A p \in {IsoProc} :
            LET c == call[p]
                k == c.skill
                s == c.session_id
            IN  /\ (pc[p] # "idle" /\ pc'[p] # pc[p]) =>
                      \A i \in Touched : spans'[i].session_id = s
                /\ GocReturns(p) =>
                      LET act == PairRows(k, s, {"active"})
                          sus == PairRows(k, s, {"suspended"})
                          par == OthersOpenIn(k, s)
                      IN  /\ last'.id \in (IF act # {} THEN act
                                           ELSE IF sus # {} THEN sus
                                           ELSE {Len(spans) + 1})
                          /\ last'.id \notin DOMAIN spans =>
                                spans'[last'.id].parent_span_id \in
                                    (IF par = {} THEN {NoSpan} ELSE par)
                /\ (DelCommits(p) /\ PairRows(k, s, {"active"}) = {}) =>
                      spans' = spans /\ pc'[p] = "idle"
                /\ (pc[p] = "ca_emit" /\ events' # events) =>
                      \E i \in OpenIn(s) : Last(events').skill = spans[i].skill
       /\ (gate' # gate) =>
            LET g == gate'
                pm == g.contract.produces
            IN  g.decision = "block" <=>
                   \E i \in PairRows(g.skill, g.session_id, {"active"}) :
                      \E x \in Needs(g) :
                         /\ pm[x] # None
                         /\ pm[x] \notin g.contract.optional
                         /\ ~InSeq(pm[x], spans[i].steps)]_vars

\* A span was created in one session without a parent while a span of
\* another procedure is open in the other session.
WitC20 ==
    /\ last.op = "goc"
    /\ last.branch = "create"
    /\ last.st = "ok"
    /\ spans[last.id].parent_span_id = NoSpan
    /\ \E j \in DOMAIN spans :
          /\ spans[j].session_id \in Sessions2
          /\ spans[j].session_id # spans[last.id].session_id
          /\ spans[j].skill # spans[last.id].skill
          /\ spans[j].status \in {"active", "suspended"}

\* C21 (as claimed): in every reachable state no span's steps holds two
\* equal entries next to each other, whether the entries come from the
\* creation, an append, a resume with a step or a delegated append.
ClaimC21 ==
    \A i \in DOMAIN spans :
        \A k \in 1..(Len(spans[i].steps) - 1) :
            spans[i].steps[k] # spans[i].steps[k + 1]

\* C22: in every reachable state each (procedure, session_id) pair has at
\* most one span that is not completed, so at most one suspended span and
\* never a suspended span beside an active one.
InvC22 ==
    \A k \in Skills, s \in SessionArgs :
        Cardinality(PairRows(k, s, {"active", "suspended"})) <= 1

\* A call without a step found the pair's suspended span and resumed it:
\* the table still holds that one span.
WitC22 ==
    /\ last.op = "goc"
    /\ last.branch = "resume"
    /\ last.st = "ok"
    /\ Len(spans) = 1
    /\ Len(spans[last.id].steps) = 1
    /\ PairRows(spans[last.id].skill, spans[last.id].session_id,
                {"active", "suspended"}) = {last.id}

\* A step in which a complete_all call without a session id runs and returns.
CaSkips ==
    /\ calls' # calls
    /\ last'.op = "ca"
    /\ last'.branch = "skip"

\* C23: complete_all called without a session id changes no span of any
\* session (active spans stay active) and emits no event.
ThmC23 ==
    [][CaSkips => /\ spans' = spans
                  /\ events' = events
                  /\ \A i \in DOMAIN spans :
                        spans[i].status = "active" => spans'[i].status = "active"]_vars

\* A complete_all without a session id has returned while a span of a
\* session and a span recorded without a session are active.
WitC23 ==
    /\ last.op = "ca"
    /\ last.branch = "skip"
    /\ \E i, j \in DOMAIN spans :
          /\ spans[i].status = "active"
          /\ spans[i].session_id \in Sessions
          /\ spans[j].status = "active"
          /\ spans[j].session_id = None

\* C26: a span created by get_or_create_span has status active, the
\* caller's procedure and session_id, first_step = last_step = the given
\* step, or the sentinel SKILL when no step is given, steps holding exactly
\* that entry, and neither suspended_at nor completed_at.
ThmC26 ==
    [][\A p \in Procs :
         (GocReturns(p) /\ Len(spans') = Len(spans) + 1) =>
            LET row == spans'[Len(spans')]
                first == IF call[p].step # None THEN call[p].step ELSE SKILL
            IN  /\ last'.id = Len(spans')
                /\ last'.branch = "create"
                /\ row.status = "active"
                /\ row.skill = call[p].skill
                /\ row.session_id = call[p].session_id
                /\ row.first_step = first
                /\ row.last_step = first
                /\ row.steps = <<first>>
                /\ row.suspended_at = NoTime
                /\ row.completed_at = NoTime]_vars

\* A call without a step has created a span that holds the sentinel, after
\* a call with a step created a span that holds the step.
WitC26 ==
    /\ last.op = "goc"
    /\ last.branch = "create"
    /\ last.st = "ok"
    /\ spans[last.id].steps = <<SKILL>>
    /\ spans[last.id].first_step = SKILL
    /\ \E j \in DOMAIN spans : j < last.id /\ spans[j].steps = <<"a">>

\* What suspend(skill, sess) may do to the table: the active spans of the
\* procedure in the session become suspended and get suspended_at, every
\* other column of theirs and every other row stay as they were.
SuspendFrame(skill, sess) ==
    /\ Len(spans') = Len(spans)
    /\ events' = events
    /\ \A i \in DOMAIN spans :
          IF /\ spans[i].skill = skill
             /\ spans[i].session_id = sess
             /\ spans[i].status = "active"
          THEN /\ spans'[i].status = "suspended"
               /\ spans'[i].suspended_at = now
               /\ spans'[i].suspended_at # NoTime
               /\ spans'[i].steps = spans[i].steps
               /\ spans'[i].first_step = spans[i].first_step
               /\ spans'[i].last_step = spans[i].last_step
               /\ spans'[i].parent_span_id = spans[i].parent_span_id
               /\ spans'[i].skill = spans[i].skill
               /\ spans'[i].session_id = spans[i].session_id
               /\ spans'[i].started_at = spans[i].started_at
               /\ spans'[i].completed_at = spans[i].completed_at
          ELSE spans'[i] = spans[i]

\* C27: suspend(procedure, session_id) sets every active span of the
\* procedure in the session to suspended with suspended_at stamped and
\* changes nothing else: steps, first_step, last_step and parent_span_id of
\* those spans stay, and spans that are suspended, completed, of another
\* procedure or of another session are unchanged; with no active span in
\* scope the table is unchanged.
ThmC27 ==
    [][(calls' # calls /\ last'.op = "sus") =>
         \A k \in Skills, s \in Sessions2 :
            suspend_current_span(IsoProc, k, s) =>
               /\ SuspendFrame(k, s)
               /\ PairRows(k, s, {"active"}) = {} => spans' = spans]_vars

\* A suspend has suspended a child span of a session while its parent in
\* the session is still active.
WitC27 ==
    /\ last.op = "sus"
    /\ last.st = "ok"
    /\ \E i, j \in DOMAIN spans :
          /\ spans[i].status = "suspended"
          /\ spans[i].suspended_at = now
          /\ spans[i].parent_span_id = j
          /\ spans[j].status = "active"
          /\ spans[j].session_id = spans[i].session_id

\* C28: across every operation and interleaving, a span's steps before a
\* transition is a prefix of its steps after it, no row disappears, and
\* first_step never changes after the creation.
ThmC28 ==
    [][\A i \in DOMAIN spans :
         /\ i \in DOMAIN spans'
         /\ Len(spans'[i].steps) >= Len(spans[i].steps)
         /\ SubSeq(spans'[i].steps, 1, Len(spans[i].steps)) = spans[i].steps
         /\ spans'[i].first_step = spans[i].first_step]_vars

\* A span created with one step has grown by a direct append and then by a
\* delegated append, and still starts with its first step.
WitC28 ==
    /\ last.op = "del"
    /\ last.st = "ok"
    /\ \E i \in DOMAIN spans :
          /\ Len(spans[i].steps) = 3
          /\ spans[i].steps[1] = spans[i].first_step
          /\ spans[i].steps[3] = spans[i].last_step
          /\ spans[i].steps[3] # spans[i].steps[2]

\* The spans of a procedure a call for (skill, sess) looks at: those of the
\* session, or those of every session when the call has no session id.
InScope(skill, sess, status) ==
    {i \in DOMAIN spans : /\ spans[i].skill = skill
                          /\ spans[i].status = status
                          /\ (sess = None \/ spans[i].session_id = sess)}

\* C25: a get_or_create_span call that finds an active span of the procedure
\* in the queried scope returns it, creates nothing and changes no status;
\* it resumes a suspended span only when the scope has no active span; it
\* creates a span only when the scope has neither; a call changes or inserts
\* at most one row, so it takes one branch only.
ThmC25 ==
    [][\A p \in Procs :
         GocReturns(p) =>
            LET act == InScope(call[p].skill, call[p].session_id, "active")
                sus == InScope(call[p].skill, call[p].session_id, "suspended")
            IN  /\ Cardinality(Touched) <= 1
                /\ act # {} =>
                      /\ last'.branch = "append"
                      /\ last'.id \in act
                      /\ Len(spans') = Len(spans)
                      /\ \A i \in DOMAIN spans : spans'[i].status = spans[i].status
                /\ (act = {} /\ sus # {}) =>
                      /\ last'.branch = "resume"
                      /\ last'.id \in sus
                      /\ Len(spans') = Len(spans)
                      /\ spans'[last'.id].status = "active"
                      /\ \A i \in DOMAIN spans : i # last'.id => spans'[i] = spans[i]
                /\ (act = {} /\ sus = {}) =>
                      /\ last'.branch = "create"
                      /\ last'.id = Len(spans) + 1
                      /\ Len(spans') = Len(spans) + 1
                      /\ \A i \in DOMAIN spans : spans'[i] = spans[i]]_vars

\* A call without a session id has appended to the procedure's active span
\* while a suspended span of the procedure stays suspended.
WitC25 ==
    /\ last.op = "goc"
    /\ last.branch = "append"
    /\ last.st = "ok"
    /\ Len(spans[last.id].steps) >= 2
    /\ \E j \in DOMAIN spans :
          /\ j # last.id
          /\ spans[j].skill = spans[last.id].skill
          /\ spans[j].status = "suspended"

\* A step in which an emit_event call runs and ends.
EmitEnds ==
    /\ calls' # calls
    /\ last'.op = "emit"

\* C24 (as claimed): emit never raises to its caller, whatever the arguments
\* and the state of the store: it either performs exactly one insert and
\* returns the new event's id, or inserts nothing and returns none.
ClaimC24 ==
    [][EmitEnds =>
         /\ last'.branch # "raise"
         /\ \/ /\ last'.branch = "insert"
               /\ Len(events') = Len(events) + 1
               /\ SubSeq(events', 1, Len(events)) = events
               /\ last'.id = Len(events')
            \/ /\ last'.branch = "none"
               /\ events' = events]_vars

\* A step in which p's log_step_enter writes the span and returns.
LogWrites(p) ==
    /\ pc[p] = "log_write"
    /\ pc'[p] = "idle"

\* C29 (as claimed): in the flow where each read of a step file is checked
\* by the gate and recorded by log_step_enter only when allowed, a step that
\* consumes an artifact whose producer is not optional is appended to a
\* span that exists and is not completed, active or suspended, only if the
\* producer is already in the span's steps.
ClaimC29 ==
    [][(/\ LogWrites(GateProc)
        /\ call[GateProc].step # None
        /\ snap[GateProc].branch \in {"append", "resume"}) =>
          LET ct == gate.contract
              i == snap[GateProc].id
          IN  \A a \in ct.consumes[call[GateProc].step] \ ROOT_INPUTS :
                 (ct.produces[a] # None /\ ct.produces[a] \notin ct.optional)
                    => InSeq(ct.produces[a], spans[i].steps)]_vars

\* C30 (as claimed): when only log_step_enter writes the spans of a session,
\* at most one span of the session, over all procedures, is active once
\* every call has returned, also when calls of different processes for
\* different procedures interleave.
ClaimC30 ==
    (\A p \in Procs : pc[p] = "idle") =>
        \A s \in Sessions :
            Cardinality({i \in DOMAIN spans : /\ spans[i].session_id = s
                                              /\ spans[i].status = "active"}) <= 1

\* C35: in every reachable state every span has a non-empty steps list,
\* first_step is its first entry and last_step is its last entry, after any
\* sequence of create, append, suspend, resume, delegated append, complete.
InvC35 ==
    \A i \in DOMAIN spans :
        /\ spans[i].steps # <<>>
        /\ spans[i].first_step = spans[i].steps[1]
        /\ spans[i].last_step = Last(spans[i].steps)

\* A span that recorded two different steps was completed by a session end.
WitC35 ==
    /\ last.op = "ca"
    /\ last.branch = "complete"
    /\ \E i \in DOMAIN spans :
          /\ spans[i].status = "completed"
          /\ Len(spans[i].steps) = 2
          /\ spans[i].first_step # spans[i].last_step

\* C36: in every reachable state completed_at is set iff the status is
\* completed, an active span has no suspended_at and a suspended span has
\* suspended_at set.
InvC36 ==
    \A i \in DOMAIN spans :
        /\ (spans[i].completed_at # NoTime) <=> (spans[i].status = "completed")
        /\ spans[i].status = "active" => spans[i].suspended_at = NoTime
        /\ spans[i].status = "suspended" => spans[i].suspended_at # NoTime

\* A span suspended at one time and resumed later is active again, with
\* suspended_at cleared and no completed_at.
WitC36 ==
    /\ last.op = "goc"
    /\ last.branch = "resume"
    /\ last.st = "ok"
    /\ spans[last.id].status = "active"
    /\ spans[last.id].suspended_at = NoTime
    /\ spans[last.id].completed_at = NoTime
    /\ spans[last.id].started_at < now

\* The parent references of a table: each refers to an earlier row of
\* another procedure, of the child's session when the child has one.
ParentsOK(tbl) ==
    \A i \in DOMAIN tbl :
        tbl[i].parent_span_id # NoSpan =>
            LET j == tbl[i].parent_span_id
            IN  /\ j \in DOMAIN tbl
                /\ j < i
                /\ tbl[j].skill # tbl[i].skill
                /\ tbl[i].session_id # None => tbl[j].session_id = tbl[i].session_id

\* C37: every parent_span_id refers to an existing span created before the
\* child, of another procedure and, when the child has a session_id, of the
\* same session; parent_span_id never changes after the creation, so no
\* span is its own ancestor.
ThmC37 ==
    [][/\ ParentsOK(spans')
       /\ \A i \in DOMAIN spans :
             /\ i \in DOMAIN spans'
             /\ spans'[i].parent_span_id = spans[i].parent_span_id]_vars

\* A chain of three spans: the third descends from the second and the
\* second from the first.
WitC37 ==
    /\ Len(spans) = 3
    /\ spans[3].parent_span_id = 2
    /\ spans[2].parent_span_id = 1
    /\ spans[1].parent_span_id = NoSpan

\* C34: after the span of a (procedure, session_id) pair was completed, the
\* next get_or_create_span for the pair that returns a span creates a new
\* active span whose span_id differs from every stored one and leaves the
\* completed span unchanged; the span_id of a row never changes and no two
\* rows share one.
ThmC34 ==
    [][/\ Len(hist') = Len(spans')
       /\ \A i \in DOMAIN hist : i \in DOMAIN hist' /\ hist'[i] = hist[i]
       /\ \A i, j \in DOMAIN hist' : i # j => hist'[i] # hist'[j]
       /\ \A p \in Procs :
            (/\ GocReturns(p)
             /\ PairRows(call[p].skill, call[p].session_id, {"completed"}) # {}
             /\ PairRows(call[p].skill, call[p].session_id,
                         {"active", "suspended"}) = {}) =>
               /\ Len(spans') = Len(spans) + 1
               /\ last'.id = Len(spans')
               /\ spans'[last'.id].status = "active"
               /\ spans'[last'.id].skill = call[p].skill
               /\ spans'[last'.id].session_id = call[p].session_id
               /\ \A i \in DOMAIN hist : hist[i] # hist'[last'.id]
               /\ \A i \in DOMAIN spans : spans'[i] = spans[i]]_vars

\* A pair whose span was completed has a second, active span under another
\* span_id.
WitC34 ==
    /\ Len(spans) = 2
    /\ Len(hist) = 2
    /\ spans[1].skill = spans[2].skill
    /\ spans[1].session_id = spans[2].session_id
    /\ spans[1].status = "completed"
    /\ spans[2].status = "active"
    /\ hist[1] # hist[2]
    /\ last.op = "goc"
    /\ last.branch = "create"

\* C38 (as claimed): a successful get_or_create_span call inserts or updates
\* exactly one span row, the one whose id it returns, and the spans of other
\* procedures keep their status, steps and timestamps.
ClaimC38 ==
    [][\A p \in Procs :
         GocReturns(p) =>
            /\ Touched = {last'.id}
            /\ \A i \in DOMAIN spans :
                  spans[i].skill # call[p].skill => spans'[i] = spans[i]]_vars

\* C38 (amended): a successful get_or_create_span call inserts or updates no
\* row but the one whose id it returns, and that one unless the span is
\* active and no step is given (then it writes nothing); the spans of other
\* procedures keep their status, steps and timestamps.
ThmC38 ==
    [][\A p \in Procs :
         GocReturns(p) =>
            /\ Touched \subseteq {last'.id}
            /\ Touched = {} <=> (snap[p].branch = "append" /\ call[p].step = None)
            /\ \A i \in DOMAIN spans :
                  spans[i].skill # call[p].skill =>
                     /\ spans'[i].status = spans[i].status
                     /\ spans'[i].steps = spans[i].steps
                     /\ spans'[i].started_at = spans[i].started_at
                     /\ spans'[i].suspended_at = spans[i].suspended_at
                     /\ spans'[i].completed_at = spans[i].completed_at
                     /\ spans'[i] = spans[i]]_vars

\* A span was created for a procedure while its parent, the span of another
\* procedure in the session, is active and stays active.
WitC38 ==
    /\ last.op = "goc"
    /\ last.branch = "create"
    /\ last.st = "ok"
    /\ spans[last.id].parent_span_id # NoSpan
    /\ spans[spans[last.id].parent_span_id].status = "active"
    /\ spans[spans[last.id].parent_span_id].session_id = spans[last.id].session_id
    /\ spans[spans[last.id].parent_span_id].suspended_at = NoTime

\* A step in which p dies inside its transaction.
Crashes(p) ==
    /\ pc[p] \in {"goc_write", "del_write"}
    /\ pc'[p] = "idle"
    /\ last'.st = "crashed"

\* C31: when a process crashes inside get_or_create_span or
\* record_delegated_step before its commit, none of its writes is visible
\* (the span table and the events are as before the operation), each pair
\* still has at most one active span and each last_step is the last entry
\* of steps, and the write lock is never left with a process that is not
\* inside a transaction, so that other processes can take it afterwards.
ThmC31 ==
    [][/\ \A p \in Procs :
            Crashes(p) => /\ spans' = spans
                          /\ events' = events
                          /\ lock = p
                          /\ lock' = NoProc
       /\ \A p \in Procs : lock' = p => pc'[p] \in {"goc_write", "del_write"}
       /\ \A i \in DOMAIN spans' : spans'[i].last_step = Last(spans'[i].steps)
       /\ \A i, j \in DOMAIN spans' :
            (/\ spans'[i].skill = spans'[j].skill
             /\ spans'[i].session_id = spans'[j].session_id
             /\ spans'[i].status = "active"
             /\ spans'[j].status = "active") => i = j]_vars

\* A process died inside its transaction on a table with one active span;
\* the span is as it was and another process now holds the write lock.
WitC31 ==
    /\ last.st = "crashed"
    /\ Len(spans) = 1
    /\ spans[1].status = "active"
    /\ \E q \in Procs : lock = q /\ pc[q] \in {"goc_write", "del_write"}

\* C32: under fair scheduling every invocation of an operation terminates;
\* a process that finds the write lock held past the bounded wait fails
\* once and returns; no process emits an event, or waits for the lock in
\* any other way, while it holds the lock itself; no set of processes
\* deadlocks.
ThmC32 ==
    /\ [](\A p \in Procs :
            /\ pc[p] \in {"log_suspend", "log_goc", "del_emit", "ca_emit",
                          "ca_update"} => lock # p
            /\ lock = p => pc[p] \in {"log_write", "del_write"})
    /\ \A p \in Procs : (pc[p] # "idle") ~> (pc[p] = "idle")

\* A handler has returned on a lock timeout while the other process is
\* still inside its transaction.
WitC32 ==
    /\ last.st = "error"
    /\ \E p, q \in Procs :
          /\ p # q
          /\ pc[p] = "idle"
          /\ lock = q
          /\ pc[q] \in {"log_write", "del_write"}

\* C33 (as claimed): a step file whose declaration is missing or cannot be
\* parsed (no frontmatter block, invalid YAML, frontmatter that is not a
\* mapping with list-valued produces and consumes) counts as a step without
\* contract: the gate allows the read of that step, and neither the parsing
\* nor the check raises.
ClaimC33 ==
    gate.step # None =>
        /\ gate.st # Raised
        /\ hist[1][gate.step].kind # "mapping" => gate.decision = "allow"

\* C39 (as claimed): every event emitted alongside a span transition of a
\* session (step_enter, session_start and session_end on a switch,
\* session_end at the session's end, subagent_step_delegate) is stored with
\* the session's id, so that events_by_session(s) returns exactly the events
\* of the transitions of session s in timestamp order; here every handler
\* runs for the one session HookSession.
ClaimC39 ==
    /\ \A k \in DOMAIN events : events[k].session_id = HookSession
    /\ get_session_events(HookSession) = events

====
